---------------------------- MODULE Spec2Model ----------------------------
(***************************************************************************)
(* Model of cleandiffuser/dataset/robomimic_dataset.py:                    *)
(*   - _convert_robomimic_to_replay: the metadata pass, the low-dimensional *)
(*     pass with its shape assertions, and the image pass with its bounded  *)
(*     set of in-flight thread-pool tasks;                                  *)
(*   - RobomimicDataset / RobomimicImageDataset: construction, __len__,     *)
(*     __getitem__ on top of the sequence sampler;                          *)
(*   - _convert_actions / undo_transform_action.                            *)
(***************************************************************************)
EXTENDS Integers, Sequences, FiniteSets, TLC

(***************************************************************************)
(* Bounds of the model.                                                    *)
(***************************************************************************)
\* The container holds at most this many steps over all its episodes.
MaxSteps == 3
\* The sampler's sequence length (horizon), paddings and n_obs_steps tried.
MaxHorizon == 3
MaxPad == 2
MaxObsSteps == 2

\* An observation array of the container may be one row shorter or longer
\* than the episode's action array (the container is read as it is).
Deltas == {-1, 1}
\* Worker counts and max_inflight_tasks arguments tried (0 stands for None).
NWorkersChoices == {1, 2}
InflightChoices == {0, 2}
\* Number of rgb keys in shape_meta["obs"].
RgbCounts == {1, 2}

None == "None"

\* Widths of an action row: position, axis-angle rotation, and the rotation
\* in the default "rotation_6d" representation.
PosDim == 3
AxisAngleDim == 3
RotDim == 6
\* Per-arm raw action width, and the widths the code tests for dual-arm rows.
ArmDim == 7
DualRawDim == 14
DualConvDim == 20
\* shape_meta defaults: robot0_eef_pos is [3], images are [3, 84, 84].
EefPosDim == 3
ImgC == 3
ImgH == 84
ImgW == 84
\* max_inflight_tasks defaults to n_workers * 5.
InflightFactor == 5

VARIABLES
    \* ---- _convert_robomimic_to_replay -------------------------------
    demos,              \* the source container: per episode the lengths of
                        \* its actions / low-dim obs / image obs arrays
    bad,                \* frames <<key, episode, step>> that fail to encode
    args,               \* abs_action, declared action width, number of rgb keys
    n_workers,
    max_inflight_tasks,
    pc,                 \* position of the converting thread
    i,                  \* loop counter of the current sequential loop
    episode_ends,
    prev_end,
    data_group,         \* field name -> leading-dimension length
    cursor,             \* <<key, position in the key's frame list>>
    tasks,              \* every task submitted so far, in submission order
    futures,            \* the submitter's set of in-flight futures
    running,            \* worker -> task it runs (0: idle)
    replay_buffer,      \* the value returned, None before
    dataset,            \* the RobomimicImageDataset built on it, None before
    \* ---- the datasets and their sampler ------------------------------
    ds_args,            \* variant, horizon, pad_before, pad_after, n_obs_steps
    ds_lens,            \* episode lengths of the file the dataset loads
    ds_i,               \* loop counter of the episode loop
    ds_buffer,          \* the dataset's replay buffer
    sampler,            \* the dataset's SequenceSampler, None before
    normalizer,         \* the dataset's self.normalizer, None before
    dpc,                \* position of the constructing thread
    out,                \* the last call on the dataset and what it returned
    \* ---- the action conversion ---------------------------------------
    raw_action,         \* an action row of the file
    act_abs,            \* abs_action
    converted,          \* _convert_actions of it, <<>> before
    undone,             \* undo_transform_action of that, <<>> before
    apc

convVars == <<demos, bad, args, n_workers, max_inflight_tasks, pc, i,
              episode_ends, prev_end, data_group, cursor, tasks, futures,
              running, replay_buffer, dataset>>

dataVars == <<ds_args, ds_lens, ds_i, ds_buffer, sampler, normalizer, dpc, out>>

actVars == <<raw_action, act_abs, converted, undone, apc>>

vars == <<convVars, dataVars, actVars>>

(***************************************************************************)
(* Helpers.                                                                *)
(***************************************************************************)
RECURSIVE SumSeq(_)
SumSeq(s) == IF s = <<>> THEN 0 ELSE Head(s) + SumSeq(Tail(s))

Max2(a, b) == IF a >= b THEN a ELSE b

Last(s) == s[Len(s)]

\* Python's list slice s[:-1].
ButLast(s) == SubSeq(s, 1, Len(s) - 1)

(***************************************************************************)
(* Phase 1: cumulative episode ends (lines 430-439).                       *)
(***************************************************************************)
\* n_steps = episode_ends[-1]
n_steps == Last(episode_ends)

\* episode_starts = [0] + episode_ends[:-1]
episode_starts == <<0>> \o ButLast(episode_ends)

\* The loop body with the end not accumulated (prev_end left out).
CountEpisodeNoCarry ==
    /\ pc = "count"
    /\ i <= Len(demos)
    /\ prev_end' = demos[i].actions
    /\ episode_ends' = Append(episode_ends, demos[i].actions)
    /\ i' = IF i = Len(demos) THEN 1 ELSE i + 1
    /\ pc' = IF i = Len(demos) THEN "lowdim" ELSE "count"
    /\ UNCHANGED <<dataVars, actVars, demos, bad, args, n_workers, max_inflight_tasks,
                   data_group, cursor, tasks, futures, running, replay_buffer,
                   dataset>>

\* One iteration of "for i in range(len(demos))" at lines 432-437.
CountEpisode ==
    /\ pc = "count"
    /\ i <= Len(demos)
    /\ LET episode_length == demos[i].actions
           episode_end == prev_end + episode_length
       IN /\ prev_end' = episode_end
          /\ episode_ends' = Append(episode_ends, episode_end)
    /\ i' = IF i = Len(demos) THEN 1 ELSE i + 1
    /\ pc' = IF i = Len(demos) THEN "lowdim" ELSE "count"
    /\ UNCHANGED <<dataVars, actVars, demos, bad, args, n_workers, max_inflight_tasks,
                   data_group, cursor, tasks, futures, running, replay_buffer,
                   dataset>>

(***************************************************************************)
(* The action conversion and its inverse, on one action row.  A row is a   *)
(* sequence; the leading (batch) dimensions of the arrays are mapped over. *)
(***************************************************************************)
\* Python's s[a:b] on a sequence (0-based, b exclusive).
Slice(s, a, b) == SubSeq(s, a + 1, b)

\* The rotation transformer is a collaborator outside this file: forward
\* takes an axis-angle triple to RotDim numbers, inverse takes RotDim numbers
\* back to a triple.  Axis-angle values that denote the same rotation (here
\* 2 and 0: a full turn) have the same image, so inverse(forward(r)) is the
\* canonical triple of r, not always r.
Canon(v) == v % 2

RotForward(rot) ==
    [j \in 1..RotDim |-> IF j <= AxisAngleDim
                         THEN Canon(rot[j])
                         ELSE 10 + Canon(rot[j - AxisAngleDim])]

\* What stands for the exception inverse raises on a row of another width.
RotError == <<0 - 1>>

RotInverse(rot) ==
    IF Len(rot) = RotDim THEN [j \in 1..AxisAngleDim |-> rot[j]] ELSE RotError

\* Lines 339-343: one arm's row, pos / rot / gripper re-concatenated.
ConvertArm(arm) ==
    LET pos == Slice(arm, 0, PosDim)
        rot == Slice(arm, PosDim, PosDim + AxisAngleDim)
        gripper == Slice(arm, PosDim + AxisAngleDim, Len(arm))
    IN pos \o RotForward(rot) \o gripper

\* _convert_actions, lines 330-348.
_convert_actions(raw_actions, abs_action) ==
    IF ~abs_action THEN raw_actions
    ELSE IF Len(raw_actions) = DualRawDim
         THEN \* reshape(-1, 2, 7) ... reshape(-1, 20)
              ConvertArm(Slice(raw_actions, 0, ArmDim))
                  \o ConvertArm(Slice(raw_actions, ArmDim, 2 * ArmDim))
         ELSE ConvertArm(raw_actions)

\* Lines 316-321: one arm's row of the converted form, back to axis-angle.
UndoArm(arm) ==
    LET d_rot == Len(arm) - 4
        pos == Slice(arm, 0, PosDim)
        rot == Slice(arm, PosDim, PosDim + d_rot)
        gripper == <<arm[Len(arm)]>>
    IN pos \o RotInverse(rot) \o gripper

\* undo_transform_action without the dual-arm reshape.
UndoNoDualSplit(action) == UndoArm(action)

\* RobomimicImageDataset.undo_transform_action, lines 310-327.
undo_transform_action(action) ==
    IF Len(action) = DualConvDim
    THEN \* reshape(-1, 2, 10) ... reshape(*raw_shape[:-1], 14)
         UndoArm(Slice(action, 0, DualConvDim \div 2))
             \o UndoArm(Slice(action, DualConvDim \div 2, DualConvDim))
    ELSE UndoArm(action)

\* RobomimicDataset.undo_transform_action, lines 105-122 (the same code).
lowdim_undo_transform_action(action) ==
    IF Len(action) = DualConvDim
    THEN UndoArm(Slice(action, 0, DualConvDim \div 2))
             \o UndoArm(Slice(action, DualConvDim \div 2, DualConvDim))
    ELSE UndoArm(action)

\* The action of _data_to_obs, lines 162-176 (the same code as
\* _convert_actions).
data_to_obs_action(raw_actions, abs_action) ==
    IF ~abs_action THEN raw_actions
    ELSE IF Len(raw_actions) = DualRawDim
         THEN ConvertArm(Slice(raw_actions, 0, ArmDim))
                  \o ConvertArm(Slice(raw_actions, ArmDim, 2 * ArmDim))
         ELSE ConvertArm(raw_actions)

(***************************************************************************)
(* Phase 2: the low-dimensional fields and the action (lines 443-468).     *)
(***************************************************************************)
LowdimKey == "robot0_eef_pos"
RgbKeys == <<"agentview_image", "robot0_eye_in_hand_image">>

\* lowdim_keys + ["action"]
Phase2Keys == <<LowdimKey, "action">>

\* The shape of np.concatenate(this_data, axis=0), after _convert_actions
\* for the action: <<leading length, row width>>.
ConcatShape(key) ==
    IF key = "action"
    THEN <<SumSeq([e \in 1..Len(demos) |-> demos[e].actions]),
           Len(_convert_actions([j \in 1..ArmDim |-> 0], args.abs_action))>>
    ELSE <<SumSeq([e \in 1..Len(demos) |-> demos[e].low]), EefPosDim>>

\* (n_steps,) + tuple(shape_meta[...]["shape"])
DeclaredShape(key) ==
    IF key = "action" THEN <<n_steps, args.action_shape>>
    ELSE <<n_steps, EefPosDim>>

\* The assertions comparing the row shape only, not the leading length.
ShapeAssertRowOnly(key) == ConcatShape(key)[2] = DeclaredShape(key)[2]

\* The assertions at lines 456-460.
ShapeAssert(key) == ConcatShape(key) = DeclaredShape(key)

Put(f, k, v) == [x \in DOMAIN f \cup {k} |-> IF x = k THEN v ELSE f[x]]

\* One iteration of the loop at line 443.
SaveLowdim ==
    /\ pc = "lowdim"
    /\ LET key == Phase2Keys[i]
       IN IF ShapeAssert(key)
          THEN /\ data_group' = Put(data_group, key, ConcatShape(key))
               /\ i' = IF i = Len(Phase2Keys) THEN 1 ELSE i + 1
               /\ pc' = IF i = Len(Phase2Keys) THEN "field" ELSE "lowdim"
          ELSE \* AssertionError leaves the function
               /\ pc' = "failed"
               /\ UNCHANGED <<data_group, i>>
    /\ UNCHANGED <<dataVars, actVars, demos, bad, args, n_workers, max_inflight_tasks,
                   episode_ends, prev_end, cursor, tasks, futures, running,
                   replay_buffer, dataset>>

(***************************************************************************)
(* Phase 3: the image fields (lines 470-515).                              *)
(***************************************************************************)
\* The (episode_idx, hdf5_idx) pairs of the loops at lines 495-498, in order:
\* hdf5_idx ranges over the image array of the episode.
RECURSIVE FramesFrom(_)
FramesFrom(e) ==
    IF e > Len(demos) THEN <<>>
    ELSE [t \in 1..demos[e].img |-> <<e, t - 1>>] \o FramesFrom(e + 1)

Frames == FramesFrom(1)

\* img_copy, lines 470-477: the write (and the read back) raises when the
\* row is outside the destination array or the frame does not encode.
img_copy(key, zarr_idx, episode_idx, hdf5_idx) ==
    /\ zarr_idx < data_group[RgbKeys[key]][1]
    /\ <<key, episode_idx, hdf5_idx>> \notin bad

Done(f) == tasks[f].state = "done"

\* Lines 488-494 for the key at index i, then the first frame of the key (or
\* the next key when the episode loops are empty).
BeginField ==
    /\ pc = "field"
    /\ IF i > args.n_rgb
       THEN pc' = "final_wait" /\ UNCHANGED <<data_group, cursor, i>>
       ELSE /\ data_group' = Put(data_group, RgbKeys[i], <<n_steps, ImgH, ImgW, ImgC>>)
            /\ IF Frames = <<>>
               THEN i' = i + 1 /\ pc' = "field" /\ UNCHANGED cursor
               ELSE cursor' = 1 /\ pc' = "check" /\ UNCHANGED i
    /\ UNCHANGED <<dataVars, actVars, demos, bad, args, n_workers, max_inflight_tasks,
                   episode_ends, prev_end, tasks, futures, running,
                   replay_buffer, dataset>>

\* A wrong comparison at line 499: waits only above the bound.
SaturatedOffByOne == Cardinality(futures) > max_inflight_tasks

\* Line 499: len(futures) >= max_inflight_tasks.
Saturated == Cardinality(futures) >= max_inflight_tasks

\* The wait at lines 501-507 without the check of the results.
WaitFirstCompletedUnchecked ==
    /\ pc = "check"
    /\ Saturated
    /\ (futures = {} \/ \E f \in futures : Done(f))
    /\ futures' = {f \in futures : ~Done(f)}
    /\ pc' = "submit"
    /\ UNCHANGED <<dataVars, actVars, demos, bad, args, n_workers, max_inflight_tasks, i,
                   episode_ends, prev_end, data_group, cursor, tasks, running,
                   replay_buffer, dataset>>

\* The wait at lines 499-507 as a loop that does not rebind futures to the
\* futures still running: the set stays saturated.
WaitFirstCompletedNoRebind ==
    /\ pc = "check"
    /\ Saturated
    /\ (futures = {} \/ \E f \in futures : Done(f))
    /\ LET completed == {f \in futures : Done(f)}
       IN /\ futures' = futures
          /\ pc' = IF \E f \in completed : ~tasks[f].result
                   THEN "raising" ELSE "check"
    /\ UNCHANGED <<dataVars, actVars, demos, bad, args, n_workers, max_inflight_tasks, i,
                   episode_ends, prev_end, data_group, cursor, tasks, running,
                   replay_buffer, dataset>>

\* Lines 499-507: the in-flight set is full; wait(FIRST_COMPLETED) returns
\* once some future is done, with every future done by then.
WaitFirstCompleted ==
    /\ pc = "check"
    /\ Saturated
    /\ (futures = {} \/ \E f \in futures : Done(f))
    /\ LET completed == {f \in futures : Done(f)}
       IN /\ futures' = futures \ completed
          /\ pc' = IF \E f \in completed : ~tasks[f].result
                   THEN "raising" ELSE "submit"
    /\ UNCHANGED <<dataVars, actVars, demos, bad, args, n_workers, max_inflight_tasks, i,
                   episode_ends, prev_end, data_group, cursor, tasks, running,
                   replay_buffer, dataset>>

\* The submission at lines 509-510 skipped for the frame at hand when the
\* submitter has just waited on a saturated set.
SubmitSkipAfterWait ==
    /\ \/ pc = "submit"
       \/ pc = "check" /\ ~Saturated
    /\ LET episode_idx == Frames[cursor][1]
           hdf5_idx == Frames[cursor][2]
           zarr_idx == episode_starts[episode_idx] + hdf5_idx
       IN IF pc = "submit"
          THEN UNCHANGED <<tasks, futures>>
          ELSE /\ tasks' = Append(tasks, [key |-> i, episode_idx |-> episode_idx,
                                          hdf5_idx |-> hdf5_idx, zarr_idx |-> zarr_idx,
                                          state |-> "queued", result |-> TRUE])
               /\ futures' = futures \cup {Len(tasks) + 1}
    /\ IF cursor = Len(Frames)
       THEN i' = i + 1 /\ pc' = "field" /\ UNCHANGED cursor
       ELSE cursor' = cursor + 1 /\ pc' = "check" /\ UNCHANGED i
    /\ UNCHANGED <<dataVars, actVars, demos, bad, args, n_workers, max_inflight_tasks,
                   episode_ends, prev_end, data_group, running,
                   replay_buffer, dataset>>

\* Lines 509-510, and the step of the loops at lines 495-498.
Submit ==
    /\ \/ pc = "submit"
       \/ pc = "check" /\ ~Saturated
    /\ LET episode_idx == Frames[cursor][1]
           hdf5_idx == Frames[cursor][2]
           zarr_idx == episode_starts[episode_idx] + hdf5_idx
       IN tasks' = Append(tasks, [key |-> i, episode_idx |-> episode_idx,
                                  hdf5_idx |-> hdf5_idx, zarr_idx |-> zarr_idx,
                                  state |-> "queued", result |-> TRUE])
    /\ futures' = futures \cup {Len(tasks) + 1}
    /\ IF cursor = Len(Frames)
       THEN i' = i + 1 /\ pc' = "field" /\ UNCHANGED cursor
       ELSE cursor' = cursor + 1 /\ pc' = "check" /\ UNCHANGED i
    /\ UNCHANGED <<dataVars, actVars, demos, bad, args, n_workers, max_inflight_tasks,
                   episode_ends, prev_end, data_group, running,
                   replay_buffer, dataset>>

\* The final wait at lines 511-515 without the check of the results.
FinalWaitUnchecked ==
    /\ pc = "final_wait"
    /\ \A f \in futures : Done(f)
    /\ futures' = {}
    /\ pc' = "return"
    /\ UNCHANGED <<dataVars, actVars, demos, bad, args, n_workers, max_inflight_tasks, i,
                   episode_ends, prev_end, data_group, cursor, tasks, running,
                   replay_buffer, dataset>>

\* Lines 511-515: wait for every remaining future, then the same check.
FinalWait ==
    /\ pc = "final_wait"
    /\ \A f \in futures : Done(f)
    /\ futures' = {}
    /\ pc' = IF \E f \in futures : ~tasks[f].result THEN "raising" ELSE "return"
    /\ UNCHANGED <<dataVars, actVars, demos, bad, args, n_workers, max_inflight_tasks, i,
                   episode_ends, prev_end, data_group, cursor, tasks, running,
                   replay_buffer, dataset>>

\* Lines 517-518.
Return ==
    /\ pc = "return"
    /\ replay_buffer' = "ReplayBuffer"
    /\ pc' = "returned"
    /\ UNCHANGED <<dataVars, actVars, demos, bad, args, n_workers, max_inflight_tasks, i,
                   episode_ends, prev_end, data_group, cursor, tasks, futures,
                   running, dataset>>

\* RuntimeError leaves the "with ThreadPoolExecutor" block (line 481): the
\* executor is shut down waiting for the tasks it holds, then the error
\* leaves the function.
Propagate ==
    /\ pc = "raising"
    /\ \A f \in 1..Len(tasks) : Done(f)
    /\ pc' = "failed"
    /\ UNCHANGED <<dataVars, actVars, demos, bad, args, n_workers, max_inflight_tasks, i,
                   episode_ends, prev_end, data_group, cursor, tasks, futures,
                   running, replay_buffer, dataset>>

\* A pool thread takes the oldest queued work item.
StartTask(w) ==
    /\ running[w] = 0
    /\ \E f \in 1..Len(tasks) :
          /\ tasks[f].state = "queued"
          /\ \A g \in 1..(f - 1) : tasks[g].state # "queued"
          /\ tasks' = [tasks EXCEPT ![f].state = "running"]
          /\ running' = [running EXCEPT ![w] = f]
    /\ UNCHANGED <<dataVars, actVars, demos, bad, args, n_workers, max_inflight_tasks, pc, i,
                   episode_ends, prev_end, data_group, cursor, futures,
                   replay_buffer, dataset>>

\* The thread finishes img_copy; the future holds its return value.
FinishTask(w) ==
    /\ running[w] # 0
    /\ LET f == running[w]
           t == tasks[f]
       IN tasks' = [tasks EXCEPT ![f].state = "done",
                                 ![f].result = img_copy(t.key, t.zarr_idx,
                                                        t.episode_idx, t.hdf5_idx)]
    /\ running' = [running EXCEPT ![w] = 0]
    /\ UNCHANGED <<dataVars, actVars, demos, bad, args, n_workers, max_inflight_tasks, pc, i,
                   episode_ends, prev_end, data_group, cursor, futures,
                   replay_buffer, dataset>>

\* RobomimicImageDataset.__init__, lines 219-267, once the conversion
\* has returned.
InitImageDataset ==
    /\ pc = "returned"
    /\ dataset' = "RobomimicImageDataset"
    /\ pc' = "ready"
    /\ UNCHANGED <<dataVars, actVars, demos, bad, args, n_workers, max_inflight_tasks, i,
                   episode_ends, prev_end, data_group, cursor, tasks, futures,
                   running, replay_buffer>>

(***************************************************************************)
(* The conversion as a whole.                                              *)
(***************************************************************************)
\* Lines 404-407.
DefaultInflight(arg, workers) == IF arg = 0 THEN workers * InflightFactor ELSE arg

\* The episode lengths of a container: at least one episode, each of at
\* least one step.
EpisodeLens ==
    {lens \in UNION {[1..n -> 1..MaxSteps] : n \in 1..MaxSteps} :
        SumSeq(lens) <= MaxSteps}

\* A container whose arrays all have their episode's length.
Aligned(lens) ==
    [e \in 1..Len(lens) |-> [actions |-> lens[e], low |-> lens[e], img |-> lens[e]]]

\* The containers tried: aligned, or with one observation array off by one.
Containers ==
    {Aligned(lens) : lens \in EpisodeLens}
    \cup UNION {{[Aligned(lens) EXCEPT ![e].low = @ + d] :
                    e \in 1..Len(lens), d \in Deltas} : lens \in EpisodeLens}
    \cup UNION {{[Aligned(lens) EXCEPT ![e].img = @ + d] :
                    e \in 1..Len(lens), d \in Deltas} : lens \in EpisodeLens}

\* The frames the container holds for the rgb keys.
AllFrames(d, n_rgb) ==
    {fr \in (1..n_rgb) \X (1..Len(d)) \X (0..MaxSteps) : fr[3] < d[fr[2]].img}

\* No call has been made on the dataset.
NoCall == [op |-> "none", idx |-> 0, result |-> [status |-> "none", value |-> <<>>]]

\* No dataset is under construction, no action row under conversion.
DataIdle ==
    /\ ds_args = None /\ ds_lens = <<>> /\ ds_i = 0 /\ ds_buffer = None
    /\ sampler = None /\ normalizer = None /\ dpc = "idle" /\ out = NoCall

ActIdle ==
    /\ raw_action = <<>> /\ act_abs = FALSE /\ converted = <<>>
    /\ undone = <<>> /\ apc = "idle"

Init ==
    /\ DataIdle
    /\ ActIdle
    /\ demos \in Containers
    /\ args \in [abs_action : BOOLEAN, action_shape : {PosDim + RotDim + 1},
                  n_rgb : RgbCounts]
    /\ bad \in {{}} \cup {{fr} : fr \in AllFrames(demos, args.n_rgb)}
    /\ n_workers \in NWorkersChoices
    /\ \E arg \in InflightChoices : max_inflight_tasks = DefaultInflight(arg, n_workers)
    /\ pc = "count"
    /\ i = 1
    /\ episode_ends = <<>>
    /\ prev_end = 0
    /\ data_group = <<>>
    /\ cursor = 0
    /\ tasks = <<>>
    /\ futures = {}
    /\ running = [w \in 1..n_workers |-> 0]
    /\ replay_buffer = None
    /\ dataset = None

Next ==
    \/ CountEpisode
    \/ SaveLowdim
    \/ BeginField
    \/ WaitFirstCompleted
    \/ Submit
    \/ FinalWait
    \/ Return
    \/ Propagate
    \/ \E w \in 1..n_workers : StartTask(w)
    \/ \E w \in 1..n_workers : FinishTask(w)
    \/ InitImageDataset

Spec == Init /\ [][Next]_vars

(***************************************************************************)
(* The replay buffer and the sequence sampler.  Their code is outside this *)
(* file; they are modelled from their description.  A row of a field is    *)
(* identified by its global index in the field's flat array.               *)
(***************************************************************************)
Min2(a, b) == IF a <= b THEN a ELSE b

\* A row of a capped field that sample_sequence leaves unread.
Unread == -1

\* ReplayBuffer.create_empty_numpy()
create_empty == [episode_ends |-> <<>>, keys |-> {}]

\* ReplayBuffer.add_episode: every field grows by the episode's rows, and
\* previous_end + step_count is appended to episode_ends.
add_episode(buffer, keys, step_count) ==
    [episode_ends |-> Append(buffer.episode_ends,
                             (IF buffer.episode_ends = <<>> THEN 0
                              ELSE Last(buffer.episode_ends)) + step_count),
     keys |-> buffer.keys \cup keys]

\* The local start offsets of an episode's windows, in order.
WindowStarts(n, L, pad_before, pad_after) ==
    [j \in 1..Max2(0, n + pad_before + pad_after - L + 1) |-> j - 1 - pad_before]

\* The sampler's table: one entry per window, by episode then by local start.
RECURSIVE CreateIndices(_, _, _, _, _)
CreateIndices(ends, e, L, pad_before, pad_after) ==
    IF e > Len(ends) THEN <<>>
    ELSE LET start == IF e = 1 THEN 0 ELSE ends[e - 1]
             starts == WindowStarts(ends[e] - start, L, pad_before, pad_after)
         IN [j \in 1..Len(starts) |-> [episode |-> e, start |-> starts[j]]]
                \o CreateIndices(ends, e + 1, L, pad_before, pad_after)

\* SequenceSampler(replay_buffer, sequence_length, pad_before, pad_after,
\* key_first_k)
SequenceSampler(buffer, L, pad_before, pad_after, key_first_k) ==
    [episode_ends |-> buffer.episode_ends,
     keys |-> buffer.keys,
     sequence_length |-> L,
     key_first_k |-> key_first_k,
     indices |-> CreateIndices(buffer.episode_ends, 1, L, pad_before, pad_after)]

\* len(sampler)
SamplerLen(smp) == Len(smp.indices)

\* sample_sequence(idx) for one field: read the window's rows that lie in
\* the episode, pad in front with the episode's first row and behind with
\* its last row up to sequence_length rows; of a capped field only the first
\* min(k, L) rows are computed.
SampleField(smp, idx, key) ==
    LET w == smp.indices[idx + 1]
        L == smp.sequence_length
        base == IF w.episode = 1 THEN 0 ELSE smp.episode_ends[w.episode - 1]
        n == smp.episode_ends[w.episode] - base
        lo == Max2(w.start, 0)
        hi == Min2(w.start + L, n)
        read == [j \in 1..Max2(hi - lo, 0) |-> base + lo + j - 1]
        front == [j \in 1..Min2(L, Max2(0, 0 - w.start)) |-> base]
        back == [j \in 1..Min2(L, Max2(0, w.start + L - n)) |-> base + n - 1]
        full == front \o read \o back
        k == IF key \in DOMAIN smp.key_first_k
             THEN Min2(smp.key_first_k[key], L) ELSE L
    IN [j \in 1..Len(full) |-> IF j <= k THEN full[j] ELSE Unread]

\* Whether the table has an entry for idx.
IndexInRange(smp, idx) == 0 <= idx /\ idx < SamplerLen(smp)

\* sample_sequence(idx): an index error outside [0, len()).
sample_sequence(smp, idx) ==
    IF ~IndexInRange(smp, idx) THEN "IndexError"
    ELSE [key \in smp.keys |-> SampleField(smp, idx, key)]

\* MinMaxNormalizer.normalize of an array of rows with normalizer nz.
Normalize(nz, rows) == [j \in 1..Len(rows) |-> <<nz, rows[j]>>]

(***************************************************************************)
(* RobomimicDataset (low-dimensional) and RobomimicImageDataset.           *)
(***************************************************************************)
\* The keys of the episode _data_to_obs builds (line 178).
LowdimEpisodeKeys == {"obs", "action"}

\* The keys of the store the conversion builds, with one image and one
\* low-dimensional observation.
ImageRgbKeys == {"agentview_image"}
ImageLowdimKeys == {"robot0_eef_pos"}
ImageStoreKeys == ImageRgbKeys \cup ImageLowdimKeys \cup {"action"}

\* One iteration of the loop at lines 81-90.
AddEpisode ==
    /\ dpc = "loading"
    /\ ds_args.variant = "lowdim"
    /\ ds_i <= Len(ds_lens)
    /\ ds_buffer' = add_episode(ds_buffer, LowdimEpisodeKeys, ds_lens[ds_i])
    /\ ds_i' = ds_i + 1
    /\ dpc' = IF ds_i = Len(ds_lens) THEN "sampler" ELSE "loading"
    /\ UNCHANGED <<convVars, actVars, ds_args, ds_lens, sampler, normalizer, out>>

\* The cumulative ends of lines 430-437, for the whole container at once.
RECURSIVE CumulativeEnds(_, _)
CumulativeEnds(lens, prev) ==
    IF lens = <<>> THEN <<>>
    ELSE <<prev + Head(lens)>> \o CumulativeEnds(Tail(lens), prev + Head(lens))

\* Lines 219-225: the store _convert_robomimic_to_replay returns.
ConvertStore ==
    /\ dpc = "loading"
    /\ ds_args.variant = "image"
    /\ ds_buffer' = [episode_ends |-> CumulativeEnds(ds_lens, 0),
                     keys |-> ImageStoreKeys]
    /\ dpc' = "sampler"
    /\ UNCHANGED <<convVars, actVars, ds_args, ds_lens, ds_i, sampler, normalizer, out>>

\* The sampler built without pad_after (its default 0 is used).
NewSamplerNoPadAfter(a, buffer, key_first_k) ==
    SequenceSampler(buffer, a.horizon, a.pad_before, 0, key_first_k)

\* Lines 92-94 and 243-249: the sampler a dataset builds.
NewSampler(a, buffer, key_first_k) ==
    SequenceSampler(buffer, a.horizon, a.pad_before, a.pad_after, key_first_k)

\* The cap put on every key, the action included.
KeyFirstKAllKeys(a) ==
    IF a.n_obs_steps = 0 THEN <<>>
    ELSE [key \in ImageStoreKeys |-> a.n_obs_steps]

\* Lines 237-241: the cap on the rgb and low-dimensional keys (n_obs_steps
\* 0 stands for None).
KeyFirstK(a) ==
    IF a.n_obs_steps = 0 THEN <<>>
    ELSE [key \in ImageRgbKeys \cup ImageLowdimKeys |-> a.n_obs_steps]

\* RobomimicDataset.get_normalizer, lines 124-130.
get_normalizer ==
    [obs |-> [state |-> "state_normalizer"], act |-> "action_normalizer"]

\* Lines 260-267: the image dataset's normalizer mapping.
ImageNormalizer ==
    [obs |-> [key \in ImageRgbKeys \cup ImageLowdimKeys |-> <<"normalizer", key>>],
     action |-> "action_normalizer"]

\* Lines 92-103 and 237-267.
BuildSampler ==
    /\ dpc = "sampler"
    /\ IF ds_args.variant = "lowdim"
       THEN /\ sampler' = NewSampler(ds_args, ds_buffer, <<>>)
            /\ normalizer' = get_normalizer
       ELSE /\ sampler' = NewSampler(ds_args, ds_buffer, KeyFirstK(ds_args))
            /\ normalizer' = ImageNormalizer
    /\ dpc' = "ready"
    /\ UNCHANGED <<convVars, actVars, ds_args, ds_lens, ds_i, ds_buffer, out>>

\* __len__, lines 147-148 and 275-276.
DatasetLen == SamplerLen(sampler)

\* RobomimicDataset.__getitem__, lines 150-156.
RobomimicDataset_getitem(idx) ==
    LET sample == sample_sequence(sampler, idx)
    IN IF ~IndexInRange(sampler, idx) THEN [status |-> "IndexError", value |-> <<>>]
       ELSE IF "obs" \notin DOMAIN normalizer
                 \/ "state" \notin DOMAIN normalizer["obs"]
                 \/ "action" \notin DOMAIN normalizer
            THEN [status |-> "KeyError", value |-> <<>>]
            ELSE [status |-> "ok",
                  value |-> [obs |-> [state |->
                                 Normalize(normalizer["obs"]["state"], sample["obs"])],
                             act |-> Normalize(normalizer["action"], sample["action"])]]

\* Python's rows[:n_obs_steps] (n_obs_steps 0 stands for None: all rows).
TSlice(rows, n_obs_steps) ==
    IF n_obs_steps = 0 THEN rows ELSE SubSeq(rows, 1, Min2(n_obs_steps, Len(rows)))

\* RobomimicImageDataset.__getitem__, lines 278-308.
RobomimicImageDataset_getitem(idx) ==
    LET sample == sample_sequence(sampler, idx)
    IN IF ~IndexInRange(sampler, idx) THEN [status |-> "IndexError", value |-> <<>>]
       ELSE [status |-> "ok",
             value |-> [obs |-> [key \in ImageRgbKeys \cup ImageLowdimKeys |->
                                    Normalize(normalizer["obs"][key],
                                              TSlice(sample[key], ds_args.n_obs_steps))],
                        action |-> Normalize(normalizer["action"], sample["action"])]]

\* dataset[idx] for an index in range.
GetItem ==
    /\ dpc = "ready"
    /\ \E idx \in 0..(DatasetLen - 1) :
          out' = [op |-> "getitem", idx |-> idx,
                  result |-> IF ds_args.variant = "lowdim"
                             THEN RobomimicDataset_getitem(idx)
                             ELSE RobomimicImageDataset_getitem(idx)]
    /\ UNCHANGED <<convVars, actVars, ds_args, ds_lens, ds_i, ds_buffer, sampler,
                   normalizer, dpc>>

\* sampler.sample_sequence(idx) for an index in range.
SampleSequence ==
    /\ dpc = "ready"
    /\ \E idx \in 0..(DatasetLen - 1) :
          out' = [op |-> "sample_sequence", idx |-> idx,
                  result |-> [status |-> "ok", value |-> sample_sequence(sampler, idx)]]
    /\ UNCHANGED <<convVars, actVars, ds_args, ds_lens, ds_i, ds_buffer, sampler,
                   normalizer, dpc>>

\* No conversion is running.
ConvIdle ==
    /\ demos = <<>> /\ bad = {} /\ args = None /\ n_workers = 0
    /\ max_inflight_tasks = 0 /\ pc = "idle" /\ i = 0 /\ episode_ends = <<>>
    /\ prev_end = 0 /\ data_group = <<>> /\ cursor = 0 /\ tasks = <<>>
    /\ futures = {} /\ running = <<>> /\ replay_buffer = None /\ dataset = None

DatasetArgs ==
    [variant : {"lowdim"}, horizon : 1..MaxHorizon, pad_before : 0..MaxPad,
     pad_after : 0..MaxPad, n_obs_steps : {0}]
    \cup [variant : {"image"}, horizon : 1..MaxHorizon, pad_before : 0..MaxPad,
          pad_after : 0..MaxPad, n_obs_steps : 0..MaxObsSteps]

DataInit ==
    /\ ConvIdle
    /\ ActIdle
    /\ ds_args \in DatasetArgs
    /\ ds_lens \in EpisodeLens
    /\ ds_i = 1
    /\ ds_buffer = create_empty
    /\ sampler = None
    /\ normalizer = None
    /\ dpc = "loading"
    /\ out = NoCall

DataNext ==
    \/ AddEpisode
    \/ ConvertStore
    \/ BuildSampler
    \/ GetItem
    \/ SampleSequence

SpecData == DataInit /\ [][DataNext]_vars

(***************************************************************************)
(* One action row through the conversion and back.                         *)
(***************************************************************************)
PosValues == {<<1, 2, 3>>, <<4, 5, 6>>}
RotValues == [1..AxisAngleDim -> {0, 1, 2}]
GripperValues == {<<7>>, <<8>>}

\* Single-arm rows [pos(3), rot(3), gripper(1)].
ArmRows == {p \o r \o g : p \in PosValues, r \in RotValues, g \in GripperValues}

\* _convert_robomimic_to_replay converts the actions (line 453).
ConvertImage ==
    /\ apc = "raw"
    /\ converted' = _convert_actions(raw_action, act_abs)
    /\ apc' = "converted"
    /\ UNCHANGED <<convVars, dataVars, raw_action, act_abs, undone>>

\* RobomimicDataset converts them in _data_to_obs (line 83).
ConvertLowdim ==
    /\ apc = "raw"
    /\ converted' = data_to_obs_action(raw_action, act_abs)
    /\ apc' = "converted"
    /\ UNCHANGED <<convVars, dataVars, raw_action, act_abs, undone>>

\* RobomimicImageDataset.undo_transform_action on the converted row.
UndoImage ==
    /\ apc = "converted"
    /\ act_abs
    /\ undone' = undo_transform_action(converted)
    /\ apc' = "undone"
    /\ UNCHANGED <<convVars, dataVars, raw_action, act_abs, converted>>

\* RobomimicDataset.undo_transform_action on the converted row.
UndoLowdim ==
    /\ apc = "converted"
    /\ act_abs
    /\ undone' = lowdim_undo_transform_action(converted)
    /\ apc' = "undone"
    /\ UNCHANGED <<convVars, dataVars, raw_action, act_abs, converted>>

ActInit ==
    /\ ConvIdle
    /\ DataIdle
    /\ raw_action \in ArmRows \cup {a \o b : a \in ArmRows, b \in ArmRows}
    /\ act_abs \in BOOLEAN
    /\ converted = <<>>
    /\ undone = <<>>
    /\ apc = "raw"

ActNext ==
    \/ ConvertImage
    \/ ConvertLowdim
    \/ UndoImage
    \/ UndoLowdim

SpecAct == ActInit /\ [][ActNext]_vars

(***************************************************************************)
(* Properties of the conversion.                                           *)
(***************************************************************************)
FailedTasks == {f \in 1..Len(tasks) : Done(f) /\ ~tasks[f].result}

\* C1: once an image-copy task has returned False, whatever its position in
\* the submission order, the completion order and the worker that ran it,
\* the conversion never reaches its return, no replay buffer and no dataset
\* exist, and the only state the call can end in is the raised failure.
C1_FailedTaskFailsConversion ==
    FailedTasks # {} =>
        /\ pc \notin {"return", "returned", "ready"}
        /\ replay_buffer = None
        /\ dataset = None
        /\ (~ENABLED Next => pc = "failed")

\* C1 witness: the call has ended raising, on a task in the middle of the
\* submission order, with two workers running the tasks.
C1_Witness ==
    /\ pc = "failed"
    /\ n_workers = 2
    /\ \E f \in FailedTasks : 1 < f /\ f < Len(tasks)

\* C2: the number of in-flight futures never exceeds max_inflight_tasks, and
\* the submitter is about to submit after a wait only with the count below
\* the bound (a submission always starts from a count below the bound).
C2_InflightBounded ==
    /\ futures \subseteq 1..Len(tasks)
    /\ Cardinality(futures) <= max_inflight_tasks
    /\ (pc = "submit" => Cardinality(futures) < max_inflight_tasks)

\* C2 witness: with the default bound (5 times the worker count) the
\* submitter found the set full, waited, drained, and is about to submit.
C2_Witness ==
    /\ pc = "submit"
    /\ max_inflight_tasks = InflightFactor * n_workers
    /\ Cardinality(futures) < max_inflight_tasks

\* C3: no two submitted tasks write the same row of the same image field.
C3_DisjointDestinations ==
    \A f, g \in 1..Len(tasks) :
        f # g => <<tasks[f].key, tasks[f].zarr_idx>> # <<tasks[g].key, tasks[g].zarr_idx>>

\* C4: after each episode is counted, episode_ends holds the running sums of
\* the episode lengths and is strictly increasing; after the last one the
\* total step count n_steps is its last element, the sum of all lengths.
C4_EpisodeEnds ==
    /\ \A j \in 1..Len(episode_ends) :
          episode_ends[j] = SumSeq([e \in 1..j |-> demos[e].actions])
    /\ \A j \in 2..Len(episode_ends) : episode_ends[j - 1] < episode_ends[j]
    /\ pc \notin {"idle", "count"} =>
          /\ Len(episode_ends) = Len(demos)
          /\ n_steps = SumSeq([e \in 1..Len(demos) |-> demos[e].actions])

\* C4 witness: two episodes of lengths 1 and 2 have been counted.
C4_Witness ==
    /\ pc = "lowdim"
    /\ episode_ends = <<1, 3>>

\* C5: every field array in the store has leading length n_steps, and the
\* store returned holds the low-dimensional field, the action and every
\* image field.
C5_FieldsHaveTotalSteps ==
    /\ \A k \in DOMAIN data_group : data_group[k][1] = n_steps
    /\ pc \in {"returned", "ready"} =>
          DOMAIN data_group =
              {LowdimKey, "action"} \cup {RgbKeys[k] : k \in 1..args.n_rgb}

\* C5 witness: a store with two image fields has been returned.
C5_Witness ==
    /\ pc = "returned"
    /\ args.n_rgb = 2
    /\ Len(episode_ends) = 2

C8_State ==
    /\ pc \in {"raising", "failed"} => replay_buffer = None /\ dataset = None
    /\ pc \in {"return", "returned", "ready"} =>
          /\ \A key \in {Phase2Keys[j] : j \in 1..Len(Phase2Keys)} : ShapeAssert(key)
          /\ \A f \in 1..Len(tasks) : Done(f) /\ tasks[f].result
    /\ \A j \in 1..Len(Phase2Keys) :
          (pc \notin {"idle", "count"} /\ ~ShapeAssert(Phase2Keys[j])) =>
              /\ \A l \in j..Len(Phase2Keys) : Phase2Keys[l] \notin DOMAIN data_group
              /\ \A k \in 1..Len(RgbKeys) : RgbKeys[k] \notin DOMAIN data_group
              /\ tasks = <<>>

C8_Step ==
    pc \in {"raising", "failed"} =>
        /\ pc' \in {"raising", "failed"}
        /\ data_group' = data_group
        /\ Len(tasks') = Len(tasks)
        /\ replay_buffer' = None
        /\ dataset' = None

C6_GetItemNormalized ==
    (ds_args.variant = "lowdim" /\ out.op = "getitem") =>
        /\ out.result.status = "ok"
        /\ out.result.value.obs.state =
               Normalize(get_normalizer.obs.state, sample_sequence(sampler, out.idx)["obs"])
        /\ out.result.value.act =
               Normalize(get_normalizer.act, sample_sequence(sampler, out.idx)["action"])

\* The closed form: the sum over the episodes of
\* max(0, n_i + pad_before + pad_after - L + 1).
TotalWindows(lens, L, pad_before, pad_after) ==
    SumSeq([e \in 1..Len(lens) |-> Max2(0, lens[e] + pad_before + pad_after - L + 1)])

\* C9: the built dataset's length is the closed form over the episode
\* lengths of the file, and it is the length of a sampler with no cap on
\* any key.
C9_LenClosedForm ==
    dpc = "ready" =>
        /\ DatasetLen = TotalWindows(ds_lens, ds_args.horizon,
                                     ds_args.pad_before, ds_args.pad_after)
        /\ DatasetLen = SamplerLen(SequenceSampler(ds_buffer, ds_args.horizon,
                                                   ds_args.pad_before,
                                                   ds_args.pad_after, <<>>))

\* C9 witness: episodes of lengths 1 and 2, L = 3, pad_before = 1: the first
\* episode has no window, the second has one; the observation keys are capped.
C9_Witness ==
    /\ dpc = "ready"
    /\ ds_lens = <<1, 2>>
    /\ ds_args = [variant |-> "image", horizon |-> 3, pad_before |-> 1,
                  pad_after |-> 0, n_obs_steps |-> 1]
    /\ DatasetLen = 1

Clamp(v, lo, hi) == IF v < lo THEN lo ELSE IF v > hi THEN hi ELSE v

\* The global row at position j (from 1) of the window of index idx: the
\* window's position clamped into its episode, which repeats the episode's
\* first row before its start and its last row past its end.
EdgeRow(idx, j) ==
    LET w == sampler.indices[idx + 1]
        base == SumSeq(SubSeq(ds_lens, 1, w.episode - 1))
    IN base + Clamp(w.start + j - 1, 0, ds_lens[w.episode] - 1)

\* The keys the dataset caps at n_obs_steps rows.
CappedKey(key) ==
    /\ ds_args.variant = "image"
    /\ ds_args.n_obs_steps # 0
    /\ key \in ImageRgbKeys \cup ImageLowdimKeys

C7_UndoConvert ==
    apc = "undone" =>
        LET arms == Len(raw_action) \div ArmDim
        IN /\ Len(converted) = arms * (PosDim + RotDim + 1)
           /\ Len(undone) = Len(raw_action)
           /\ \A a \in 0..(arms - 1) :
                 /\ \A j \in 1..PosDim : undone[a * ArmDim + j] = raw_action[a * ArmDim + j]
                 /\ undone[a * ArmDim + ArmDim] = raw_action[a * ArmDim + ArmDim]
                 /\ Slice(undone, a * ArmDim + PosDim, a * ArmDim + PosDim + AxisAngleDim)
                        = RotInverse(RotForward(
                              Slice(raw_action, a * ArmDim + PosDim,
                                    a * ArmDim + PosDim + AxisAngleDim)))

\* C7 witness: a dual-arm row whose two arms differ went through the
\* conversion and back, and its rotation came back in canonical form.
C7_Witness ==
    /\ apc = "undone"
    /\ Len(raw_action) = DualRawDim
    /\ Len(converted) = DualConvDim
    /\ Slice(raw_action, 0, ArmDim) # Slice(raw_action, ArmDim, 2 * ArmDim)
    /\ undone # raw_action


(***************************************************************************)
(* The order of submission.                                                *)
(***************************************************************************)
\* The order of the nested loops at lines 483, 495 and 498 on
\* (field, episode, step) triples.
LexLess(a, b) ==
    \/ a[1] < b[1]
    \/ a[1] = b[1] /\ a[2] < b[2]
    \/ a[1] = b[1] /\ a[2] = b[2] /\ a[3] < b[3]

\* The (field, episode, step) triple of the f-th submitted task.
Triple(f) == <<tasks[f].key, tasks[f].episode_idx, tasks[f].hdf5_idx>>

\* C11: at every moment the tasks submitted so far, in submission order, are
\* an initial part of the lexicographic (field, episode, step) enumeration of
\* the container's frames: a task is submitted before every task of a greater
\* triple (no reordering, no repetition), and every frame below a submitted
\* one has been submitted (no skipping), whatever tasks have completed.
C11_SubmissionOrder ==
    /\ \A f, g \in 1..Len(tasks) : f < g => LexLess(Triple(f), Triple(g))
    /\ \A f \in 1..Len(tasks) :
          /\ Triple(f) \in AllFrames(demos, args.n_rgb)
          /\ \A fr \in AllFrames(demos, args.n_rgb) :
                LexLess(fr, Triple(f)) => \E g \in 1..(f - 1) : Triple(g) = fr

\* C11 witness: the second task completed before the first, the submitter
\* waited on the saturated set and then submitted the third task.
C11_Witness ==
    /\ Len(tasks) >= 3
    /\ max_inflight_tasks = 2
    /\ tasks[2].state = "done"
    /\ tasks[1].state = "running"
    /\ 1 \in futures /\ 2 \notin futures /\ 3 \in futures

(***************************************************************************)
(* The rows of the image fields at a successful return.                    *)
(***************************************************************************)
\* The tasks that write row r of the image field of key k.
Writers(k, r) ==
    {f \in 1..Len(tasks) : tasks[f].key = k /\ tasks[f].zarr_idx = r}

\* The submitter has taken future f out of its set at a wait (lines 501-506
\* and 511-514), where it reads the result.
Examined(f) == f \notin futures

\* C12: when the conversion has returned, every row 0 .. n_steps - 1 of every
\* image field has been written by exactly one task, that task is done with a
\* passed round-trip check, and the submitter has examined its result.
C12_EveryRowWrittenOnce ==
    pc \in {"returned", "ready"} =>
        \A k \in 1..args.n_rgb : \A r \in 0..(n_steps - 1) :
            /\ Cardinality(Writers(k, r)) = 1
            /\ \A f \in Writers(k, r) :
                  Done(f) /\ tasks[f].result /\ Examined(f)

(***************************************************************************)
(* Termination of the image phase.                                         *)
(***************************************************************************)
\* The steps of the thread that runs _convert_robomimic_to_replay.
Submitter ==
    \/ CountEpisode
    \/ SaveLowdim
    \/ BeginField
    \/ WaitFirstCompleted
    \/ Submit
    \/ FinalWait
    \/ Return
    \/ Propagate
    \/ InitImageDataset

\* The calling thread keeps running, and the pool keeps starting queued
\* work items on idle threads and finishing the ones it runs: every task
\* handed to the executor eventually completes.
SpecFair ==
    /\ Init
    /\ [][Next]_vars
    /\ WF_vars(Submitter)
    /\ WF_vars(\E w \in 1..n_workers : StartTask(w))
    /\ WF_vars(\E w \in 1..n_workers : FinishTask(w))

\* C13: once the image phase has begun, the call ends: it returns the store
\* or the encode failure leaves the function; in particular no wait on a
\* saturated in-flight set and no final wait lasts forever.
C13_ImagePhaseTerminates == (pc = "field") ~> (pc \in {"returned", "failed"})

\* C13 witness: the call has returned after more submissions than the
\* in-flight bound, so the submitter waited on a saturated set.
C13_Witness ==
    /\ pc = "returned"
    /\ Len(tasks) > max_inflight_tasks
=============================================================================
